---- MODULE Spec2Model ----
(***************************************************************************)
(* roygbiv: the layer store, the selection, the names projection and the   *)
(* two canvas caches of src/main.rs, as a state machine.                   *)
(*                                                                         *)
(* One action per Message variant handled by Roygbiv::update, one for      *)
(* Roygbiv::view and one for CanvasState::draw.  Messages that update      *)
(* schedules with Task::perform / Task::done are in flight until the       *)
(* runtime delivers them; messages the widgets emit come from the view as  *)
(* it was last built.  The runtime handles its messages in batches: the    *)
(* messages delivered by tasks and subscriptions first, then the messages  *)
(* the widgets emitted, then it rebuilds the view and draws.  The f32       *)
(* fields hold whole numbers and are modelled by integers; the quotient    *)
(* draw computes is an f32 <<numerator, denominator>>, each division       *)
(* rounded to the nearest f32 as the code's is.                            *)
(***************************************************************************)
EXTENDS Integers, Sequences, FiniteSets, TLC

VARIABLES
    layers,                 \* canvas_state.layers : Vec<Layer>
    layers_cache,           \* canvas_state.layers_cache : canvas::Cache
    background_cache,       \* canvas_state.background_cache : canvas::Cache
    canvas_width,           \* Roygbiv.canvas_width
    canvas_height,          \* Roygbiv.canvas_height
    audio_file_path,        \* Roygbiv.audio_file_path : Option<PathBuf>
    audio_file_contents,    \* Roygbiv.audio_file_contents : Vec<u8>
    is_loading_file,        \* Roygbiv.is_loading_file
    layer_names,            \* Roygbiv.layer_names : Vec<String>
    selected_layer_index,   \* Roygbiv.selected_layer_index : usize
    image_loads,            \* open_image_file() tasks in flight
    audio_loads,            \* open_audio_file() tasks in flight
    select_last_tasks,      \* Task::done(Message::SelectLastLayer) not yet delivered
    rendered,               \* what the widgets of the last view() can emit
    panicked,               \* update unwound with a panic: the process is gone
    last                    \* the step taken last, and what it observed

vars == <<layers, layers_cache, background_cache, canvas_width, canvas_height,
          audio_file_path, audio_file_contents, is_loading_file, layer_names,
          selected_layer_index, image_loads, audio_loads, select_last_tasks,
          rendered, panicked, last>>

engine == <<layers, layers_cache, background_cache, canvas_width, canvas_height,
            audio_file_path, audio_file_contents, is_loading_file, layer_names,
            selected_layer_index>>

(***************************************************************************)
(* Bounds of the model.                                                    *)
(***************************************************************************)
MaxLayers == 3
MaxLoads == 2
MaxPending == 2

(***************************************************************************)
(* Program constants.                                                      *)
(***************************************************************************)
InitCanvasWidth == 1280
InitCanvasHeight == 720
Margin == 20

\* Option: None is the empty sequence, Some(v) the sequence <<v>>
None == <<>>
Some(v) == <<v>>

\* vec![]
NoBytes == ""

(***************************************************************************)
(* Inputs.  A path is what the code asks of a PathBuf: to_str is           *)
(* Path::to_str(), None when the path is not UTF-8; file_name is           *)
(* Path::file_name() followed by OsStr::to_str(), None when the path has   *)
(* no final component and Some(None) when that component is not UTF-8.     *)
(* The contents decode to an image of size dims, or do not decode.         *)
(***************************************************************************)
Undecodable == <<0, 0>>

PlainPath(full, file_name) ==
    [to_str |-> Some(full), file_name |-> Some(Some(file_name))]

ImageFiles ==
    { [path |-> PlainPath("/img/a.png", "a.png"),
       contents |-> "bytes_a", dims |-> <<2000, 1000>>],
      [path |-> PlainPath("/img/c.png", "c.png"),
       contents |-> "bytes_c", dims |-> Undecodable] }

AudioFiles ==
    { [path |-> PlainPath("/snd/s.wav", "s.wav"),
       contents |-> "bytes_s"] }

Errors == {"DialogClosed", "IoError"}

\* Result<(PathBuf, Arc<Vec<u8>>), Error>
ImageResults == {[ok |-> TRUE, file |-> Some(f), error |-> None] : f \in ImageFiles}
                \cup {[ok |-> FALSE, file |-> None, error |-> Some(e)] : e \in Errors}

AudioResults == {[ok |-> TRUE, file |-> Some(f), error |-> None] : f \in AudioFiles}
                \cup {[ok |-> FALSE, file |-> None, error |-> Some(e)] : e \in Errors}

CanvasSizes == {<<1280, 720>>, <<800, 20>>}

BoundsSizes == {<<800, 450>>, <<1280, 720>>}

(***************************************************************************)
(* f32 values, for the quotients of draw.  A finite value is <<n, d>>, the *)
(* fraction n / d in lowest terms with d a power of two and |n| < 2^24;    *)
(* <<1, 0>> and <<-1, 0>> are the infinities and <<0, 0>> is NaN.  The     *)
(* sign of a zero is not kept, and the values stay in the normal range     *)
(* (d <= 2^30).                                                            *)
(***************************************************************************)
Abs(n) == IF n < 0 THEN -n ELSE n

\* a whole number below 2^24 as f32
Whole(n) == <<n, 1>>

NaN == <<0, 0>>

\* the exponent of a power of two
RECURSIVE Log2(_)
Log2(d) == IF d = 1 THEN 0 ELSE 1 + Log2(d \div 2)

\* binary long division of q + r / d until q has 24 bits: <<q, r, k>> with
\* the quotient so far q / 2^k and the remainder r (r < d)
RECURSIVE F32Digits(_, _, _, _)
F32Digits(q, r, d, k) ==
    IF q >= 2^23
    THEN <<q, r, k>>
    ELSE F32Digits(2 * q + ((2 * r) \div d), (2 * r) % d, d, k + 1)

\* m / 2^e in lowest terms
RECURSIVE F32Normal(_, _)
F32Normal(m, e) ==
    IF e < 0 THEN F32Normal(2 * m, e + 1)
    ELSE IF e > 0 /\ m % 2 = 0 THEN F32Normal(m \div 2, e - 1)
    ELSE <<m, 2^e>>

\* the f32 nearest to (n / d) / 2^e for 0 < n, d < 2^24: 24 significant
\* bits, a tie rounded to the even one
F32Quotient(n, d, e) ==
    LET digits == F32Digits(n \div d, n % d, d, 0)
        q == digits[1]
        r == digits[2]
        m == IF 2 * r > d \/ (2 * r = d /\ q % 2 = 1) THEN q + 1 ELSE q
    IN  F32Normal(m, digits[3] + e)

\* the / of f32: IEEE 754 division, rounded to nearest
F32Div(a, b) ==
    LET sign == IF (a[1] < 0) # (b[1] < 0) THEN -1 ELSE 1
    IN  IF a = NaN \/ b = NaN THEN NaN
        ELSE IF a[2] = 0 THEN (IF b[2] = 0 THEN NaN ELSE <<sign, 0>>)
        ELSE IF b[2] = 0 THEN <<0, 1>>
        ELSE IF b[1] = 0 THEN (IF a[1] = 0 THEN NaN ELSE <<sign, 0>>)
        ELSE IF a[1] = 0 THEN <<0, 1>>
        ELSE LET quotient == F32Quotient(Abs(a[1]), Abs(b[1]),
                                         Log2(a[2]) - Log2(b[2]))
             IN  <<sign * quotient[1], quotient[2]>>

(***************************************************************************)
(* Pure parts of Roygbiv::update.                                          *)
(***************************************************************************)

\* main.rs 163-168: path.file_name() then to_str(), else path.to_str(),
\* else "Unnamed"
FileName(path) ==
    LET file_name == IF path.file_name # None
                     THEN path.file_name[1]
                     ELSE path.to_str
    IN  IF file_name # None THEN file_name[1] ELSE "Unnamed"

\* a fallback size that is the whole canvas
ImageSize_NoMargin(dims, cw, ch) ==
    IF dims # Undecodable
    THEN [width |-> dims[1], height |-> dims[2]]
    ELSE [width |-> cw, height |-> ch]

\* main.rs 169-182: the decoded dimensions, or the canvas size less 20
ImageSize(dims, cw, ch) ==
    IF dims # Undecodable
    THEN [width |-> dims[1], height |-> dims[2]]
    ELSE [width |-> cw - Margin, height |-> ch - Margin]

\* main.rs 183-192
NewLayer(file, cw, ch) ==
    LET image_size == ImageSize(file.dims, cw, ch)
    IN  [name |-> FileName(file.path),
         x |-> 0, y |-> 0,
         width |-> image_size.width, height |-> image_size.height,
         scale |-> 1, opacity |-> 1,
         handle |-> file.contents]

\* Vec::swap_remove: the last element takes the place of the removed one
VecRemove_SwapRemove(v, index) ==
    [i \in 1..(Len(v) - 1) |-> IF i = index + 1 THEN v[Len(v)] ELSE v[i]]

\* Vec::remove(index) for index < len: the later elements move down by one
VecRemove(v, index) ==
    [i \in 1..(Len(v) - 1) |-> IF i <= index THEN v[i] ELSE v[i + 1]]

\* main.rs 217-224: update_layer_names
LayerNamesOf(ls) == [i \in 1..Len(ls) |-> ls[i].name]

\* main.rs 210: layers.len().max(1) - 1
LastIndex(ls) == (IF Len(ls) > 1 THEN Len(ls) ELSE 1) - 1

(***************************************************************************)
(* canvas::Cache and CanvasState::draw.                                    *)
(***************************************************************************)
EmptyCache == [state |-> "Empty", bounds |-> <<0, 0>>, geometry |-> <<>>]

\* Cache::clear
CacheClear(cache) == EmptyCache

\* Cache::draw reuses the stored geometry when it was drawn at these bounds
CacheHit(cache, bounds) == cache.state = "Filled" /\ cache.bounds = bounds

\* Cache::draw(renderer, bounds, closure): content is what the closure draws;
\* ran tells whether the closure was run
CacheDraw(cache, bounds, content) ==
    IF CacheHit(cache, bounds)
    THEN [cache |-> cache, ran |-> FALSE]
    ELSE [cache |-> [state |-> "Filled", bounds |-> bounds, geometry |-> content],
          ran |-> TRUE]

\* main.rs 461-463: one black rectangle over the whole frame
BackgroundFill(bounds) ==
    <<[x |-> 0, y |-> 0, width |-> bounds[1], height |-> bounds[2],
       fill |-> "BLACK"]>>

\* a fit to the bounds that forgets the margin
FinalWidth_NoMargin(layer, bounds) ==
    IF layer.width > bounds[1] THEN bounds[1] ELSE layer.width

\* main.rs 474-478
FinalWidth(layer, bounds) ==
    IF layer.width > bounds[1] THEN bounds[1] - Margin ELSE layer.width

\* main.rs 469: layer.width / layer.height
AspectRatio(layer) == F32Div(Whole(layer.width), Whole(layer.height))

\* main.rs 480-484: final_width / aspect_ratio, both divisions in f32
FinalHeight(layer, bounds) ==
    LET final_width == FinalWidth(layer, bounds)
    IN  IF final_width # layer.width
        THEN F32Div(Whole(final_width), AspectRatio(layer))
        ELSE Whole(layer.height)

\* main.rs 486-494: the rectangle one layer is drawn into
LayerRectangle(layer, bounds) ==
    [x |-> layer.x, y |-> layer.y,
     width |-> FinalWidth(layer, bounds),
     height |-> FinalHeight(layer, bounds),
     handle |-> layer.handle]

\* main.rs 467-495: the closure of layers_cache.draw, index 0 first
Composite(ls, bounds) == [i \in 1..Len(ls) |-> LayerRectangle(ls[i], bounds)]

(***************************************************************************)
(* Roygbiv::view: what the widgets built from the state can emit.          *)
(***************************************************************************)
\* main.rs 322: layers.get(selected_layer_index) is Some
SelectedLayerPresent(ls, index) == index < Len(ls)

ViewOf(ls, names, index, path, loading) ==
    [list_len |-> Len(names),                              \* 324-356
     selected_layer_index |-> index,                       \* 370
     delete_enabled |-> SelectedLayerPresent(ls, index),   \* 369-372
     remove_audio_enabled |-> path # None,                 \* 263-273
     open_audio_enabled |-> path = None /\ ~loading]       \* 274-281

\* last: the message update handled (or "View", "Draw"), whether it took
\* effect, which closures a draw ran, whether a draw came right after
\* another draw, and the index a RemoveLayer or LayerSelected carried
Step(op, ok, redrawn_layers, redrawn_background) ==
    [op |-> op, ok |-> ok, redrawn_layers |-> redrawn_layers,
     redrawn_background |-> redrawn_background, after_draw |-> FALSE,
     index |-> 0]

\* a draw that fills the background on every frame instead of asking the cache
DrawBackground_Uncached(cache, bounds) ==
    [cache |-> [state |-> "Filled", bounds |-> bounds,
                geometry |-> BackgroundFill(bounds)],
     ran |-> TRUE]

\* main.rs 461-464: background_cache.draw
DrawBackground(cache, bounds) == CacheDraw(cache, bounds, BackgroundFill(bounds))

\* a draw that composites on every frame instead of asking the cache
DrawLayers_Uncached(cache, ls, bounds) ==
    [cache |-> [state |-> "Filled", bounds |-> bounds,
                geometry |-> Composite(ls, bounds)],
     ran |-> TRUE]

\* main.rs 466-496: layers_cache.draw
DrawLayers(cache, ls, bounds) == CacheDraw(cache, bounds, Composite(ls, bounds))

\* an update that does not clear the cache
CanvasStateUpdate_Keep(cache) == cache

\* main.rs 441-443: CanvasState::update
CanvasStateUpdate(cache) == CacheClear(cache)

(***************************************************************************)
(* Init: main.rs 30-46 and CanvasState::new, 433-439.                      *)
(***************************************************************************)
Init ==
    /\ layers = <<>>
    /\ layers_cache = EmptyCache
    /\ background_cache = EmptyCache
    /\ canvas_width = InitCanvasWidth
    /\ canvas_height = InitCanvasHeight
    /\ audio_file_path = None
    /\ audio_file_contents = NoBytes
    /\ is_loading_file = FALSE
    /\ layer_names = <<>>
    /\ selected_layer_index = 0
    /\ image_loads = 0
    /\ audio_loads = 0
    /\ select_last_tasks = 0
    /\ rendered = ViewOf(<<>>, <<>>, 0, None, FALSE)
    /\ panicked = FALSE
    /\ last = Step("Init", TRUE, FALSE, FALSE)

(***************************************************************************)
(* Roygbiv::update, one action per Message.                                *)
(***************************************************************************)
tasks == <<image_loads, audio_loads, select_last_tasks>>
canvas_size == <<canvas_width, canvas_height>>
audio == <<audio_file_path, audio_file_contents, is_loading_file>>
caches == <<layers_cache, background_cache>>
store == <<layers, layer_names>>

\* a resize that refits the layers of the store to the new canvas
SetCanvasSize_Refit(width, height) ==
    /\ ~panicked
    /\ canvas_width' = width
    /\ canvas_height' = height
    /\ layers' = [k \in 1..Len(layers) |->
                     [layers[k] EXCEPT !.width = width - Margin,
                                       !.height = height - Margin]]
    /\ last' = Step("SetCanvasSize", TRUE, FALSE, FALSE)
    /\ UNCHANGED <<layer_names, caches, audio, selected_layer_index, tasks,
                   rendered, panicked>>

\* main.rs 121-126
SetCanvasSize(width, height) ==
    /\ ~panicked
    /\ canvas_width' = width
    /\ canvas_height' = height
    /\ last' = Step("SetCanvasSize", TRUE, FALSE, FALSE)
    /\ UNCHANGED <<store, caches, audio, selected_layer_index, tasks, rendered,
                   panicked>>

\* an OpenAudioFile that starts a load whether or not one is running
OpenAudioFile_Unguarded ==
    /\ ~panicked
    /\ is_loading_file' = TRUE
    /\ audio_loads' = audio_loads + 1
    /\ last' = Step("OpenAudioFile", ~is_loading_file, FALSE, FALSE)
    /\ UNCHANGED <<store, caches, canvas_size, audio_file_path,
                   audio_file_contents, selected_layer_index, image_loads,
                   select_last_tasks, rendered, panicked>>

\* main.rs 127-135
OpenAudioFile ==
    /\ ~panicked
    /\ IF is_loading_file
       THEN UNCHANGED <<is_loading_file, audio_loads>>
       ELSE /\ is_loading_file' = TRUE
            /\ audio_loads' = audio_loads + 1
    /\ last' = Step("OpenAudioFile", ~is_loading_file, FALSE, FALSE)
    /\ UNCHANGED <<store, caches, canvas_size, audio_file_path,
                   audio_file_contents, selected_layer_index, image_loads,
                   select_last_tasks, rendered, panicked>>

\* main.rs 136-143
RemoveAudioFile ==
    /\ ~panicked
    /\ is_loading_file' = FALSE
    /\ audio_file_path' = None
    /\ audio_file_contents' = NoBytes
    /\ last' = Step("RemoveAudioFile", TRUE, FALSE, FALSE)
    /\ UNCHANGED <<store, caches, canvas_size, selected_layer_index, tasks,
                   rendered, panicked>>

\* main.rs 144-153: the result of an open_audio_file task in flight
AudioFileOpened(result) ==
    /\ ~panicked
    /\ audio_loads > 0
    /\ audio_loads' = audio_loads - 1
    /\ is_loading_file' = FALSE
    /\ IF result.ok
       THEN /\ audio_file_path' = Some(result.file[1].path)
            /\ audio_file_contents' = result.file[1].contents
       ELSE UNCHANGED <<audio_file_path, audio_file_contents>>
    /\ last' = Step("AudioFileOpened", result.ok, FALSE, FALSE)
    /\ UNCHANGED <<store, caches, canvas_size, selected_layer_index, image_loads,
                   select_last_tasks, rendered, panicked>>

\* main.rs 154: Task::perform(open_image_file(), Message::ImageFileOpened)
AddImageLayer ==
    /\ ~panicked
    /\ image_loads' = image_loads + 1
    /\ last' = Step("AddImageLayer", TRUE, FALSE, FALSE)
    /\ UNCHANGED <<store, caches, canvas_size, audio, selected_layer_index,
                   audio_loads, select_last_tasks, rendered, panicked>>

\* a removal that does not call update_layer_names
RemoveLayer_StaleNames(index) ==
    /\ ~panicked
    /\ IF index < Len(layers)
       THEN /\ layers' = VecRemove(layers, index)
            /\ select_last_tasks' = select_last_tasks + 1
            /\ UNCHANGED <<layer_names, panicked>>
       ELSE /\ panicked' = TRUE
            /\ UNCHANGED <<store, select_last_tasks>>
    /\ last' = [Step("RemoveLayer", index < Len(layers), FALSE, FALSE)
                   EXCEPT !.index = index]
    /\ UNCHANGED <<caches, canvas_size, audio, selected_layer_index, image_loads,
                   audio_loads, rendered>>

\* main.rs 155-160: Vec::remove panics when index >= len, before anything
\* is changed and before the task is returned
RemoveLayer(index) ==
    /\ ~panicked
    /\ IF index < Len(layers)
       THEN /\ layers' = VecRemove(layers, index)
            /\ layer_names' = LayerNamesOf(layers')
            /\ select_last_tasks' = select_last_tasks + 1
            /\ UNCHANGED panicked
       ELSE /\ panicked' = TRUE
            /\ UNCHANGED <<store, select_last_tasks>>
    /\ last' = [Step("RemoveLayer", index < Len(layers), FALSE, FALSE)
                   EXCEPT !.index = index]
    /\ UNCHANGED <<caches, canvas_size, audio, selected_layer_index, image_loads,
                   audio_loads, rendered>>

\* main.rs 161-198: the result of an open_image_file task in flight
ImageFileOpened(result) ==
    /\ ~panicked
    /\ image_loads > 0
    /\ image_loads' = image_loads - 1
    /\ IF result.ok
       THEN /\ layers' = Append(layers,
                                NewLayer(result.file[1], canvas_width, canvas_height))
            /\ layer_names' = LayerNamesOf(layers')
       ELSE UNCHANGED store
    /\ select_last_tasks' = select_last_tasks + 1
    /\ last' = Step("ImageFileOpened", result.ok, FALSE, FALSE)
    /\ UNCHANGED <<caches, canvas_size, audio, selected_layer_index, audio_loads,
                   rendered, panicked>>

\* a selection that is clamped to the last index of the list
LayerSelected_Clamped(index, string) ==
    /\ ~panicked
    /\ selected_layer_index' = (IF index < Len(layers) THEN index
                                ELSE LastIndex(layers))
    /\ last' = [Step("LayerSelected", TRUE, FALSE, FALSE)
                   EXCEPT !.index = index]
    /\ UNCHANGED <<store, caches, canvas_size, audio, tasks, rendered, panicked>>

\* main.rs 199-203
LayerSelected(index, string) ==
    /\ ~panicked
    /\ selected_layer_index' = index
    /\ last' = [Step("LayerSelected", TRUE, FALSE, FALSE)
                   EXCEPT !.index = index]
    /\ UNCHANGED <<store, caches, canvas_size, audio, tasks, rendered, panicked>>

\* main.rs 204-208
Tick ==
    /\ ~panicked
    /\ layers_cache' = CanvasStateUpdate(layers_cache)
    /\ last' = Step("Tick", TRUE, FALSE, FALSE)
    /\ UNCHANGED <<store, background_cache, canvas_size, audio,
                   selected_layer_index, tasks, rendered, panicked>>

\* main.rs 209-213: a Task::done(Message::SelectLastLayer) is delivered
SelectLastLayer ==
    /\ ~panicked
    /\ select_last_tasks > 0
    /\ select_last_tasks' = select_last_tasks - 1
    /\ selected_layer_index' = LastIndex(layers)
    /\ last' = Step("SelectLastLayer", TRUE, FALSE, FALSE)
    /\ UNCHANGED <<store, caches, canvas_size, audio, image_loads, audio_loads,
                   rendered, panicked>>

(***************************************************************************)
(* Roygbiv::view, main.rs 261-400: the runtime rebuilds the widgets from   *)
(* the state after it has handled the messages it had.                     *)
(***************************************************************************)
\* the messages the widgets emit, and whether the batch being handled has
\* reached them: the view is rebuilt before the next batch is started
WidgetMessages ==
    {"OpenAudioFile", "RemoveAudioFile", "AddImageLayer", "RemoveLayer",
     "LayerSelected"}

WidgetBatch == last.op \in WidgetMessages

\* (a view that emits what the last one did, built when no widget message
\* was handled, is not a step)
View ==
    /\ ~panicked
    /\ rendered' = ViewOf(layers, layer_names, selected_layer_index,
                          audio_file_path, is_loading_file)
    /\ rendered' # rendered \/ WidgetBatch
    /\ last' = Step("View", TRUE, FALSE, FALSE)
    /\ UNCHANGED <<engine, tasks, panicked>>

(***************************************************************************)
(* CanvasState::draw, main.rs 449-499.                                     *)
(***************************************************************************)
Draw(bounds) ==
    LET background == DrawBackground(background_cache, bounds)
        composite == DrawLayers(layers_cache, layers, bounds)
    IN  /\ ~panicked
        /\ background_cache' = background.cache
        /\ layers_cache' = composite.cache
        /\ last' = [Step("Draw", TRUE, composite.ran, background.ran)
                       EXCEPT !.after_draw = (last.op = "Draw")]
        /\ UNCHANGED <<store, canvas_size, audio, selected_layer_index, tasks,
                       rendered, panicked>>

(***************************************************************************)
(* The steps of the program: the messages the last view can emit, the      *)
(* messages the runtime delivers, and the frames it draws.                 *)
(***************************************************************************)
\* no widget emits SetCanvasSize; update accepts it from any caller
HostSetCanvasSize ==
    /\ ~WidgetBatch
    /\ \E size \in CanvasSizes : SetCanvasSize(size[1], size[2])

\* main.rs 274-281: "Select audio file", pressable unless a load is running
PressSelectAudioFile == rendered.open_audio_enabled /\ OpenAudioFile

\* main.rs 264-273: "Remove audio file", shown while a path is attached
PressRemoveAudioFile == rendered.remove_audio_enabled /\ RemoveAudioFile

AudioLoadCompletes ==
    /\ ~WidgetBatch
    /\ \E result \in AudioResults : AudioFileOpened(result)

\* main.rs 365: "Add new layer"
PressAddLayer == image_loads < MaxLoads /\ AddImageLayer

\* main.rs 366-373: "Delete layer", pressable while a layer is selected
PressDeleteLayer ==
    /\ rendered.delete_enabled
    /\ select_last_tasks < MaxPending
    /\ RemoveLayer(rendered.selected_layer_index)

ImageLoadCompletes ==
    \E result \in ImageResults :
        /\ ~WidgetBatch
        /\ select_last_tasks < MaxPending
        /\ result.ok => Len(layers) < MaxLayers
        /\ ImageFileOpened(result)

\* main.rs 324-356: a row of the list that was built from layer_names
PressLayerRow ==
    \E index \in 0..(rendered.list_len - 1) :
        LayerSelected(index, "row")

\* main.rs 402-404: frames() yields a Tick for every frame
FrameTick == ~WidgetBatch /\ Tick

DeliverSelectLastLayer == ~WidgetBatch /\ SelectLastLayer

\* main.rs 309-312: the canvas of the view that was built last is drawn
CanvasDraw == ~WidgetBatch /\ \E bounds \in BoundsSizes : Draw(bounds)

Next ==
    \/ HostSetCanvasSize
    \/ PressSelectAudioFile
    \/ PressRemoveAudioFile
    \/ AudioLoadCompletes
    \/ PressAddLayer
    \/ PressDeleteLayer
    \/ ImageLoadCompletes
    \/ PressLayerRow
    \/ FrameTick
    \/ DeliverSelectLastLayer
    \/ View
    \/ CanvasDraw

Spec == Init /\ [][Next]_vars

(***************************************************************************)
(* Restrictions of Next to the actions that read or write the variables a  *)
(* property is about.  StoreNext: the layer store, the names and the       *)
(* selection.  CacheNext: StoreNext with the frames (Tick and draw).       *)
(***************************************************************************)
StoreNext ==
    \/ PressAddLayer
    \/ PressDeleteLayer
    \/ ImageLoadCompletes
    \/ PressLayerRow
    \/ DeliverSelectLastLayer
    \/ View

StoreSpec == Init /\ [][StoreNext]_vars

\* the runtime rebuilds the view after every batch, and starts every batch
\* with the messages its tasks have produced
FairStoreSpec ==
    StoreSpec /\ WF_vars(View) /\ SF_vars(DeliverSelectLastLayer)

CacheNext ==
    \/ StoreNext
    \/ FrameTick
    \/ CanvasDraw

CacheSpec == Init /\ [][CacheNext]_vars

\* the layer store under resizes of the canvas
CanvasNext ==
    \/ StoreNext
    \/ HostSetCanvasSize

CanvasSpec == Init /\ [][CanvasNext]_vars

\* update and view on their own: every message, and no frame is drawn
UpdateNext ==
    \/ CanvasNext
    \/ FrameTick
    \/ PressSelectAudioFile
    \/ PressRemoveAudioFile
    \/ AudioLoadCompletes

UpdateSpec == Init /\ [][UpdateNext]_vars

(***************************************************************************)
(* draw on its own: two decoded images of any of these sizes have been     *)
(* appended and selected, and the canvas is drawn at any of these bounds.  *)
(***************************************************************************)
DrawWidths == {100, 780, 800, 801, 810, 2000}
DrawHeights == {3, 50, 513, 1000}
DrawBoundsSizes == {<<800, 450>>, <<800, 600>>, <<1280, 720>>, <<20, 20>>, <<10, 30>>}

DecodedImage(name, width, height) ==
    [path |-> PlainPath(name, name), contents |-> name,
     dims |-> <<width, height>>]

DrawInit ==
    /\ \E w1 \in DrawWidths, h1 \in DrawHeights, w2 \in {100, 801}, h2 \in {50, 3} :
          layers = <<NewLayer(DecodedImage("a.png", w1, h1),
                              InitCanvasWidth, InitCanvasHeight),
                     NewLayer(DecodedImage("b.png", w2, h2),
                              InitCanvasWidth, InitCanvasHeight)>>
    /\ layer_names = LayerNamesOf(layers)
    /\ selected_layer_index = LastIndex(layers)
    /\ layers_cache = EmptyCache
    /\ background_cache = EmptyCache
    /\ canvas_width = InitCanvasWidth
    /\ canvas_height = InitCanvasHeight
    /\ audio_file_path = None
    /\ audio_file_contents = NoBytes
    /\ is_loading_file = FALSE
    /\ image_loads = 0
    /\ audio_loads = 0
    /\ select_last_tasks = 0
    /\ rendered = ViewOf(layers, layer_names, selected_layer_index, None, FALSE)
    /\ panicked = FALSE
    /\ last = Step("SelectLastLayer", TRUE, FALSE, FALSE)

DrawAtAnyBounds == \E bounds \in DrawBoundsSizes : Draw(bounds)

DrawNext == DrawAtAnyBounds

DrawSpec == DrawInit /\ [][DrawNext]_vars

(***************************************************************************)
(* Properties.                                                             *)
(***************************************************************************)
Mutated == last.op \in {"RemoveLayer", "ImageFileOpened"} /\ last.ok

SelectedIndexValid ==
    IF Len(layers) = 0
    THEN selected_layer_index = 0
    ELSE selected_layer_index <= Len(layers) - 1

\* C1: in every state right after an update that appended or removed a
\* layer, the selected index is valid: 0 when the list is empty, at most
\* len - 1 otherwise.
C1_ValidAfterMutation == Mutated => SelectedIndexValid

\* C2: in the state right after the update that appends a layer, the
\* selected index is len - 1, the index of the new layer.
C2_AppendSelectsLast ==
    (last.op = "ImageFileOpened" /\ last.ok)
        => selected_layer_index = Len(layers) - 1

\* C3: every handled RemoveLayer and ImageFileOpened is eventually followed
\* by a handled SelectLastLayer, and right after a SelectLastLayer the
\* selected index is max(len - 1, 0).
C3_SelectLastFollows ==
    /\ (last.op \in {"RemoveLayer", "ImageFileOpened"})
          ~> (last.op = "SelectLastLayer")
    /\ [](last.op = "SelectLastLayer" =>
             selected_layer_index
                = (IF Len(layers) = 0 THEN 0 ELSE Len(layers) - 1))

\* C4: an update of RemoveLayer(index) with index >= len ends in an error,
\* leaves the layers, the names and the selection as they were, and the
\* engine keeps running.
C4_OutOfRangeRemoveRejected ==
    [][(last'.op = "RemoveLayer" /\ ~last'.ok)
          => (/\ ~panicked'
              /\ UNCHANGED <<layers, layer_names, selected_layer_index>>)]_vars

\* C5: the layers slot a draw returns is the composite of the current
\* layer list at the drawn bounds, and the first draw after an append or a
\* removal runs the compositing closure.
C5_DrawAfterMutationRecomputes ==
    [][last'.op = "Draw"
          => (/\ layers_cache'.geometry = Composite(layers', layers_cache'.bounds)
              /\ Mutated => last'.redrawn_layers)]_vars

\* C6: in every state layer_names is the sequence of the names of layers,
\* of the same length and in the same order.
C6_NamesMatchLayers ==
    /\ Len(layer_names) = Len(layers)
    /\ \A i \in 1..Len(layers) : layer_names[i] = layers[i].name

C6_Witness ==
    /\ last.op = "RemoveLayer"
    /\ last.ok
    /\ Len(layers) = 1
    /\ layer_names = <<"c.png">>

\* C7: of two draws at the same bounds with no message handled between
\* them, the second returns the output of the first and does not run the
\* compositing closure.
C7_SecondDrawIsCacheHit ==
    [][(/\ last.op = "Draw"
        /\ last'.op = "Draw"
        /\ layers_cache'.bounds = layers_cache.bounds)
          => (/\ layers_cache' = layers_cache
              /\ background_cache' = background_cache
              /\ ~last'.redrawn_layers)]_vars

C7_Witness ==
    /\ last.op = "Draw"
    /\ last.after_draw
    /\ ~last.redrawn_layers
    /\ ~last.redrawn_background
    /\ Len(layers) = 2
    /\ layers_cache.geometry = Composite(layers, layers_cache.bounds)

RECURSIVE Gcd(_, _)
Gcd(a, b) == IF b = 0 THEN a ELSE Gcd(b, a % b)

RECURSIVE IsPowerOfTwo(_)
IsPowerOfTwo(n) == n = 1 \/ (n > 1 /\ n % 2 = 0 /\ IsPowerOfTwo(n \div 2))

\* the f32 nearest to the exact quotient n / d of two whole numbers
\* (|n| < 2^24, 0 < d < 2^24)
Nearest(n, d) ==
    IF n = 0 THEN <<0, 1>>
    ELSE LET quotient == F32Quotient(Abs(n), d, 0)
         IN  <<(IF n < 0 THEN -1 ELSE 1) * quotient[1], quotient[2]>>

\* a finite f32 that is not zero as <<m, k>>: m / 2^k with 24 bits in m
RECURSIVE Significand(_, _)
Significand(n, k) == IF n >= 2^23 THEN <<n, k>> ELSE Significand(2 * n, k + 1)

\* a and b are at most ulps units in the last place apart (units of the
\* one with the smaller exponent)
WithinUlps(a, b, ulps) ==
    IF a[1] = 0 \/ b[1] = 0 THEN a = b
    ELSE LET sa == Significand(Abs(a[1]), Log2(a[2]))
             sb == Significand(Abs(b[1]), Log2(b[2]))
         IN  /\ (a[1] < 0) = (b[1] < 0)
             /\ Abs(sa[2] - sb[2]) <= 1
             /\ Abs((IF sa[2] < sb[2] THEN 2 ELSE 1) * sa[1]
                    - (IF sb[2] < sa[2] THEN 2 ELSE 1) * sb[1]) <= ulps

\* the drawn rectangle keeps w : h: its height is (B - 20) * h / w, as
\* exactly as an f32 holds it
ScalingLaw(layer, rectangle, bounds) ==
    IF layer.width > bounds[1]
    THEN /\ rectangle.width = bounds[1] - 20
         /\ rectangle.height
               = Nearest((bounds[1] - 20) * layer.height, layer.width)
    ELSE /\ rectangle.width = layer.width
         /\ rectangle.height = <<layer.height, 1>>

\* C8: a layer of width w and height h is drawn into bounds of width B as
\* (B - 20) x (B - 20) / (w / h) when w > B, so that the drawn width is to
\* the drawn height as w is to h, and as w x h otherwise; the height of the
\* bounds plays no part, and drawing leaves the stored layers as they are.
C8_FitToBounds ==
    [][/\ layers' = layers
       /\ Len(layers_cache'.geometry) = Len(layers)
       /\ \A i \in 1..Len(layers) :
             /\ layers[i].width > 0 /\ layers[i].height > 0
             /\ ScalingLaw(layers[i], layers_cache'.geometry[i],
                           layers_cache'.bounds)
             /\ \A other \in DrawBoundsSizes :
                   other[1] = layers_cache'.bounds[1]
                      => LayerRectangle(layers[i], other)
                            = layers_cache'.geometry[i]]_vars

\* the drawn height is at most one unit in the last place away from the
\* f32 nearest to (B - 20) * h / w, and is that f32 when w / h is an f32
ScalingLawRounded(layer, rectangle, bounds) ==
    IF layer.width > bounds[1]
    THEN LET nearest == Nearest((bounds[1] - 20) * layer.height, layer.width)
             ratio_den == layer.height \div Gcd(layer.width, layer.height)
         IN  /\ rectangle.width = bounds[1] - 20
             /\ rectangle.height[2] # 0
             /\ WithinUlps(rectangle.height, nearest, 1)
             /\ IsPowerOfTwo(ratio_den) => rectangle.height = nearest
    ELSE /\ rectangle.width = layer.width
         /\ rectangle.height = <<layer.height, 1>>

\* C8 (amended): a layer of width w and height h is drawn into bounds of
\* width B as (B - 20) x (B - 20) / (w / h) when w > B, and as w x h
\* otherwise; the quotient w / h is rounded to f32 before it is divided
\* by, so the drawn height is within one unit in the last place of the f32
\* nearest to (B - 20) * h / w, and equal to it when w / h is an f32; the
\* height of the bounds plays no part, and drawing leaves the stored layers
\* as they are.
C8_FitToBoundsRounded ==
    [][/\ layers' = layers
       /\ Len(layers_cache'.geometry) = Len(layers)
       /\ \A i \in 1..Len(layers) :
             /\ layers[i].width > 0 /\ layers[i].height > 0
             /\ ScalingLawRounded(layers[i], layers_cache'.geometry[i],
                                  layers_cache'.bounds)
             /\ \A other \in DrawBoundsSizes :
                   other[1] = layers_cache'.bounds[1]
                      => LayerRectangle(layers[i], other)
                            = layers_cache'.geometry[i]]_vars

\* 810 x 513 and 100 x 50 were drawn into bounds 800 wide: 780 x 493.99997
\* (16187391 / 32768, one unit below 494 = 780 * 513 / 810) and 100 x 50
C8_Witness ==
    /\ last.op = "Draw"
    /\ layers_cache.bounds[1] = 800
    /\ layers[1].width = 810 /\ layers[1].height = 513
    /\ layers[2].width = 100 /\ layers[2].height = 50
    /\ layers_cache.geometry[1].width = 780
    /\ layers_cache.geometry[1].height = <<16187391, 32768>>
    /\ layers_cache.geometry[2].width = 100
    /\ layers_cache.geometry[2].height = <<50, 1>>

\* C9: a failed or cancelled image pick changes nothing: the layers, the
\* names and the selected index are the same after ImageFileOpened(Err) and
\* after the message it schedules as they were before.
C9_CancelledPickIsNoCommand ==
    [][/\ (last'.op = "ImageFileOpened" /\ ~last'.ok)
             => UNCHANGED <<layers, layer_names, selected_layer_index>>
       /\ (/\ last.op = "ImageFileOpened" /\ ~last.ok
           /\ select_last_tasks = 1
           /\ last'.op = "SelectLastLayer")
             => UNCHANGED <<layers, layer_names, selected_layer_index>>]_vars

\* C10: a Tick leaves the layers cache Empty, whatever it was, and a draw
\* that finds it Empty runs the compositing closure on the current layers.
C10_TickClearsLayersCache ==
    [][/\ last'.op = "Tick" => layers_cache'.state = "Empty"
       /\ (layers_cache.state = "Empty" /\ last'.op = "Draw")
             => (/\ last'.redrawn_layers
                 /\ layers_cache'.geometry
                       = Composite(layers', layers_cache'.bounds))]_vars

C10_Witness ==
    /\ last.op = "Tick"
    /\ layers_cache.state = "Empty"
    /\ background_cache.state = "Filled"
    /\ Len(layers) > 0

\* C11: a draw runs the background closure exactly when the background cache
\* is Empty or was last drawn at another size than the one requested, and
\* no other step (Tick, append, RemoveLayer, LayerSelected, SelectLastLayer,
\* a view) changes the background cache.
C11_BackgroundRecomputedOnResizeOnly ==
    [][/\ last'.op = "Draw"
             => /\ background_cache'.state = "Filled"
                /\ last'.redrawn_background
                      <=> (\/ background_cache.state = "Empty"
                           \/ background_cache.bounds # background_cache'.bounds)
                /\ background_cache'.geometry
                      = BackgroundFill(background_cache'.bounds)
       /\ last'.op # "Draw" => background_cache' = background_cache]_vars

\* a draw right after a draw, at another size: the background was redrawn
C11_Witness ==
    /\ last.op = "Draw"
    /\ last.after_draw
    /\ last.redrawn_background
    /\ background_cache.bounds = <<800, 450>>
    /\ Len(layers) = 2

\* C12: in every reachable state every layer of the store has width > 0 and
\* height > 0, the layers built with the fallback size after SetCanvasSize
\* messages included.
C12_LayerSizesPositive ==
    \A k \in 1..Len(layers) : layers[k].width > 0 /\ layers[k].height > 0

\* C13: an ImageFileOpened(Ok) appends exactly one layer, with x = y = 0,
\* scale = 1 and opacity = 1; its size is the decoded image's dimensions, or
\* (canvas_width - 20, canvas_height - 20) of the canvas size at that moment
\* when the bytes do not decode.
C13_UndecodableStillAppends ==
    [][(last'.op = "ImageFileOpened" /\ last'.ok)
          => /\ Len(layers') = Len(layers) + 1
             /\ SubSeq(layers', 1, Len(layers)) = layers
             /\ LET new == layers'[Len(layers')]
                    file == CHOOSE f \in ImageFiles : f.contents = new.handle
                IN  /\ new.x = 0 /\ new.y = 0
                    /\ new.scale = 1 /\ new.opacity = 1
                    /\ IF file.dims = Undecodable
                       THEN /\ new.width = canvas_width - 20
                            /\ new.height = canvas_height - 20
                       ELSE /\ new.width = file.dims[1]
                            /\ new.height = file.dims[2]]_vars

\* undecodable bytes were opened on the 1280 x 720 canvas, after a layer
\* of a decoded image
C13_Witness ==
    /\ last.op = "ImageFileOpened" /\ last.ok
    /\ canvas_width = 1280 /\ canvas_height = 720
    /\ Len(layers) = 2
    /\ layers[1].width = 2000 /\ layers[1].height = 1000
    /\ layers[2].handle = "bytes_c"
    /\ layers[2].width = 1260 /\ layers[2].height = 700

\* C14: every RemoveLayer(i) that update handles has i < len(layers) at the
\* moment it is handled; i is the selected index of the view that emitted it.
C14_RemoveAlwaysInRange ==
    [][last'.op = "RemoveLayer" => last'.index < Len(layers)]_vars

\* C15: an in-range RemoveLayer(i) deletes the layer at index i only and
\* moves each later layer down by one, an append adds at the end, no other
\* step changes the list, and a draw that composites paints the list from
\* index 0 to len - 1 in that order.
C15_RemovalShiftsAndKeepsOrder ==
    [][/\ (last'.op = "RemoveLayer" /\ last'.ok)
             => /\ Len(layers') = Len(layers) - 1
                /\ \A k \in 0..(Len(layers') - 1) :
                      layers'[k + 1] = (IF k < last'.index
                                        THEN layers[k + 1]
                                        ELSE layers[k + 2])
                /\ layer_names' = [k \in 1..Len(layers') |-> layers'[k].name]
       /\ (last'.op = "ImageFileOpened" /\ last'.ok)
             => /\ Len(layers') = Len(layers) + 1
                /\ \A k \in 1..Len(layers) : layers'[k] = layers[k]
       /\ ~(last'.op \in {"RemoveLayer", "ImageFileOpened"} /\ last'.ok)
             => layers' = layers
       /\ (last'.op = "Draw" /\ last'.redrawn_layers)
             => /\ Len(layers_cache'.geometry) = Len(layers)
                /\ \A k \in 1..Len(layers) :
                      layers_cache'.geometry[k].handle = layers[k].handle]_vars

\* a.png, c.png, a.png were appended and drawn, and index 0 was removed:
\* c.png and a.png are left, in that order
C15_Witness ==
    /\ last.op = "RemoveLayer" /\ last.ok /\ last.index = 0
    /\ layers_cache.state = "Filled"
    /\ Len(layers_cache.geometry) = 3
    /\ layers_cache.geometry[1].handle = "bytes_a"
    /\ layers_cache.geometry[2].handle = "bytes_c"
    /\ layers_cache.geometry[3].handle = "bytes_a"
    /\ layer_names = <<"c.png", "a.png">>
    /\ layers[1].handle = "bytes_c"
    /\ layers[2].handle = "bytes_a"

\* C16: LayerSelected(i, _) sets the selected index to i for every i, also
\* i >= len, without an error and without changing the layers, the names or
\* either cache; and every view that is built has a current layer (and the
\* delete button enabled) exactly when the selected index is below len.
C16_SelectIsUnconditional ==
    [][/\ last'.op = "LayerSelected"
             => /\ selected_layer_index' = last'.index
                /\ last'.ok /\ ~panicked'
                /\ UNCHANGED <<layers, layer_names, layers_cache,
                               background_cache>>
       /\ last'.op = "View"
             => /\ rendered'.delete_enabled
                      <=> (selected_layer_index < Len(layers))
                /\ rendered'.selected_layer_index = selected_layer_index]_vars

\* a row of a view built before a removal was selected: the index is not
\* below len, and the caches are filled
C16_Witness ==
    /\ last.op = "LayerSelected"
    /\ last.index = 1
    /\ Len(layers) = 1
    /\ selected_layer_index = 1
    /\ layers_cache.state = "Filled"
    /\ ~panicked

\* C17: the layers change through two messages only: ImageFileOpened(Ok)
\* makes the list one longer, the new layer at the end, and an in-range
\* RemoveLayer makes it one shorter; every other step (Tick, LayerSelected,
\* SelectLastLayer, SetCanvasSize, AddImageLayer, ImageFileOpened(Err),
\* OpenAudioFile, AudioFileOpened, RemoveAudioFile, a view) leaves layers
\* and layer_names as they were.
C17_OnlyTwoMessagesChangeLayers ==
    [][CASE last'.op = "ImageFileOpened" /\ last'.ok ->
                /\ Len(layers') = Len(layers) + 1
                /\ SubSeq(layers', 1, Len(layers)) = layers
                /\ Len(layer_names') = Len(layer_names) + 1
                /\ SubSeq(layer_names', 1, Len(layer_names)) = layer_names
         [] last'.op = "RemoveLayer" /\ last'.ok ->
                /\ Len(layers') = Len(layers) - 1
                /\ Len(layer_names') = Len(layer_names) - 1
         [] OTHER ->
                /\ last'.op \in {"Tick", "LayerSelected", "SelectLastLayer",
                                 "SetCanvasSize", "AddImageLayer",
                                 "ImageFileOpened", "OpenAudioFile",
                                 "AudioFileOpened", "RemoveAudioFile",
                                 "RemoveLayer", "View"}
                /\ layers' = layers
                /\ layer_names' = layer_names]_vars

\* the canvas was resized after a fallback-size layer was built on the
\* 1280 x 720 canvas, with an audio file attached: the layer is as it was
C17_Witness ==
    /\ last.op = "SetCanvasSize"
    /\ canvas_width = 800 /\ canvas_height = 20
    /\ Len(layers) = 2
    /\ layers[2].handle = "bytes_c"
    /\ layers[2].width = 1260 /\ layers[2].height = 700
    /\ layer_names = <<"a.png", "c.png">>
    /\ audio_file_path # None

\* C18: at most one audio load is in flight and is_loading_file is true
\* exactly while one is; OpenAudioFile starts a load only when the flag is
\* false and changes nothing otherwise; AudioFileOpened clears the flag and
\* replaces the path and the contents on success only; RemoveAudioFile is
\* never handled while a load is in flight; AddImageLayer starts a load
\* whatever is in flight, and each loaded image is one append at the end.
C18_OneAudioLoadAtATime ==
    /\ [](/\ audio_loads <= 1
          /\ is_loading_file <=> (audio_loads = 1))
    /\ [][/\ last'.op = "OpenAudioFile"
                => IF is_loading_file
                   THEN UNCHANGED <<engine, tasks, rendered, panicked>>
                   ELSE /\ audio_loads' = audio_loads + 1
                        /\ is_loading_file'
                        /\ UNCHANGED <<audio_file_path, audio_file_contents>>
          /\ last'.op = "AudioFileOpened"
                => /\ ~is_loading_file'
                   /\ audio_loads' = audio_loads - 1
                   /\ IF last'.ok
                      THEN \E f \in AudioFiles :
                              /\ audio_file_path' = <<f.path>>
                              /\ audio_file_contents' = f.contents
                      ELSE UNCHANGED <<audio_file_path, audio_file_contents>>
          /\ last'.op = "RemoveAudioFile"
                => /\ audio_loads = 0
                   /\ ~is_loading_file
                   /\ rendered.remove_audio_enabled
                   /\ audio_file_path' = <<>>
          /\ last'.op = "View"
                => rendered'.remove_audio_enabled <=> (audio_file_path # <<>>)
          /\ last'.op = "AddImageLayer" => image_loads' = image_loads + 1
          /\ (last'.op = "ImageFileOpened" /\ last'.ok)
                => /\ image_loads' = image_loads - 1
                   /\ Len(layers') = Len(layers) + 1
                   /\ SubSeq(layers', 1, Len(layers)) = layers]_vars

\* Select audio file was pressed twice on one view while two image loads
\* were in flight: the second press was a no-op and one audio load runs
C18_Witness ==
    /\ last.op = "OpenAudioFile" /\ ~last.ok
    /\ is_loading_file
    /\ audio_loads = 1
    /\ image_loads = 2
    /\ Len(layers) = 1

====
